---- MODULE Spec2Model ----
(***************************************************************************)
(* Model of app.py (MagangHub analyst): the vacancy cache and its fetcher, *)
(* the odds calculator, the Gemini classifier, and the three Flask         *)
(* handlers, run by concurrent request threads over the module globals.    *)
(*                                                                         *)
(* Python values are modelled as follows.  A list object lives in `heap`   *)
(* under an object id, so that two names bound to the same list alias.     *)
(* A vacancy dict keeps the keys id, perusahaan, kuota, pendaftar, peluang *)
(* and kategori (the keys posisi, deskripsi, jenjang and jurusan are       *)
(* written once by the fetcher and never read by a decision of the code).  *)
(* A float odds value is an exact fraction <<n, d>> in lowest terms; the   *)
(* rounded odds of a record are an integer number of hundredths.           *)
(***************************************************************************)
EXTENDS Integers, Sequences, FiniteSets, TLC

\* ------------------------------------------------------------------ bounds
NumThreads == 2
MaxRequests == 2
MaxTicks == 1
MaxItems == 2
MaxLabels == 1
MaxRecs == 2
MaxVal == 10

\* ------------------------------------------------------- program constants
TTL == 3600
MAX_PAGES_LIMIT == 1

Threads == 1..NumThreads
Missing == "<missing>"
Null == "<null>"
StartTime == TTL

\* ----------------------------------------------------------- odds (floats)
RECURSIVE Gcd(_, _)
Gcd(a, b) == IF b = 0 THEN a ELSE Gcd(b, a % b)

Rat(n, d) == LET g == Gcd(n, d) IN IF g = 0 THEN <<0, 1>> ELSE <<n \div g, d \div g>>
RatMul(r, k) == Rat(r[1] * k, r[2])
RatLeq(r, s) == r[1] * s[2] <= s[1] * r[2]
RatMin(r, s) == IF RatLeq(r, s) THEN r ELSE s

hitung_peluang_nocap(kuota, pelamar) ==
    IF pelamar = 0
    THEN (IF kuota > 0 THEN <<100, 1>> ELSE <<0, 1>>)
    ELSE RatMul(Rat(kuota, pelamar), 100)

hitung_peluang(kuota, pelamar) ==
    IF pelamar = 0
    THEN (IF kuota > 0 THEN <<100, 1>> ELSE <<0, 1>>)
    ELSE RatMin(RatMul(Rat(kuota, pelamar), 100), <<100, 1>>)

\* round(x, 2) of a non-negative fraction, in hundredths, ties to even
Round2(r) ==
    LET n == r[1] * 100
        q == n \div r[2]
        m == 2 * (n % r[2])
    IN  IF m < r[2] THEN q
        ELSE IF m > r[2] THEN q + 1
        ELSE IF q % 2 = 0 THEN q ELSE q + 1

\* --------------------------------------------------------- listings items
\* items of the 'data' array of a listings page
ItemPool ==
    { [id_posisi |-> "a", nama_perusahaan |-> "PT A", jumlah_kuota |-> 1,  jumlah_terdaftar |-> 3],
      [id_posisi |-> "b", nama_perusahaan |-> "PT B", jumlah_kuota |-> 50, jumlah_terdaftar |-> 10] }

SeqsUpTo(S, n) == UNION { [1..k -> S] : k \in 0..n }

\* id_posisi is the key of a position: a page lists a position once
PageBodies ==
    { s \in SeqsUpTo(ItemPool, MaxItems) :
        \A i, j \in DOMAIN s : i # j => s[i].id_posisi # s[j].id_posisi }
LastPages == {0, 1, 3}

NoKategori == "<absent>"

ExtractItem(item) ==
    [ id         |-> item.id_posisi,
      perusahaan |-> item.nama_perusahaan,
      kuota      |-> item.jumlah_kuota,
      pendaftar  |-> item.jumlah_terdaftar,
      peluang    |-> Round2(hitung_peluang(item.jumlah_kuota, item.jumlah_terdaftar)),
      kategori   |-> NoKategori ]

ExtractPage(body) == [k \in 1..Len(body) |-> ExtractItem(body[k])]

Min(a, b) == IF a <= b THEN a ELSE b

\* ------------------------------------------------------------------ state
VARIABLES
    gemini_client,    \* TRUE iff genai.Client was built at import (GEMINI_API_KEY set)
    LOWONGAN_CACHE,   \* object id of the list the global is bound to
    LAST_SCRAPED,     \* timestamp of the last completed fetch, 0 at import
    heap,             \* object id -> content of that list object
    nextId,           \* next free list object id
    now,              \* time.time()
    ticks,            \* number of clock steps taken
    files,            \* paths that exist under UPLOAD_FOLDER
    thread,           \* per request thread: position, locals and observations
    started,          \* number of requests received
    lastReturn,       \* object id the latest completed proses_data_api call returned
    fetched,          \* content of the cached list right after the latest cache store
    kuota_in,         \* hitung_peluang: argument kuota
    pelamar_in,       \* hitung_peluang: argument pelamar
    odds_out          \* hitung_peluang: <<"none">> or <<"value", fraction>>

vars == << gemini_client, LOWONGAN_CACHE, LAST_SCRAPED, heap, nextId, now, ticks,
           files, thread, started, lastReturn, fetched, kuota_in, pelamar_in, odds_out >>

sysvars == << gemini_client, LOWONGAN_CACHE, LAST_SCRAPED, heap, nextId, now, ticks,
              files, thread, started, lastReturn, fetched >>

oddsvars == << kuota_in, pelamar_in, odds_out >>

NoList == 0 - 1
EmptyMap == [i \in {} |-> ""]
NoResp == [status |-> 0, body |-> <<>>]
NoUpload == [present |-> FALSE, filename |-> Missing, mimetype |-> Missing]

IdleThread ==
    [ pc |-> "idle", handler |-> "none",
      cv_file |-> NoUpload, filepath |-> Missing, saved |-> FALSE,
      all_data |-> <<>>, current_page |-> 0, total_pages |-> 0,
      lowongan_data |-> NoList, classification_map |-> EmptyMap,
      df_all |-> <<>>, uploaded_file |-> FALSE,
      pending |-> NoResp, resp |-> NoResp,
      \* observations of this request, kept until it returns
      outcome |-> "none",       \* of its proses_data_api call: hit / stored / raised
      obsYoung |-> FALSE,       \* time.time() - LAST_SCRAPED it read at line 99 was under an hour
      obsStamped |-> FALSE,     \* LAST_SCRAPED was set by a fetch when it read it
      obsCache |-> NoList,      \* list object LOWONGAN_CACHE named when it read it
      obsEmpty |-> FALSE,       \* that list was empty
      prevReturn |-> NoList,    \* what the call before its proses call returned
      requests |-> 0,           \* listings requests it sent
      aiCalls |-> 0,            \* Gemini calls it made
      pageFailure |-> "none",   \* request_exception / malformed_body
      failedWith |-> <<>>,      \* all_data when the page failed
      recommendations |-> <<>>, \* list the model returned to the recommend handler
      deleteFailed |-> FALSE ]

InitSys ==
    /\ gemini_client \in BOOLEAN
    /\ LOWONGAN_CACHE = 0
    /\ LAST_SCRAPED = 0
    /\ heap = [i \in {0} |-> <<>>]
    /\ nextId = 1
    /\ now = StartTime
    /\ ticks = 0
    /\ files = {}
    /\ thread = [t \in Threads |-> IdleThread]
    /\ started = 0
    /\ lastReturn = NoList
    /\ fetched = <<>>

Init ==
    /\ InitSys
    /\ kuota_in = 0 /\ pelamar_in = 0 /\ odds_out = <<"none">>

Set(t, r) == thread' = [thread EXCEPT ![t] = r]

\* ------------------------------------------------------------------ clock
TickSteps == {TTL - 1, TTL}

Tick ==
    /\ ticks < MaxTicks
    /\ \E d \in TickSteps : now' = now + d
    /\ ticks' = ticks + 1
    /\ UNCHANGED << gemini_client, LOWONGAN_CACHE, LAST_SCRAPED, heap, nextId, files,
                    thread, started, lastReturn, fetched, oddsvars >>

\* ------------------------------------------------------- proses_data_api
\* the cache test of line 99
CacheFresh_nolist(t, last, cache) == t - last < TTL

CacheFresh(t, last, cache) == t - last < TTL /\ cache # <<>>

LoopCond(r) == r.current_page <= r.total_pages /\ r.current_page <= MAX_PAGES_LIMIT

ProsesCheck_singleflight(t) ==
    LET r == thread[t]
        obs == [r EXCEPT !.obsYoung = (now - LAST_SCRAPED < TTL),
                         !.obsStamped = (LAST_SCRAPED # 0),
                         !.obsCache = LOWONGAN_CACHE,
                         !.obsEmpty = (heap[LOWONGAN_CACHE] = <<>>),
                         !.prevReturn = lastReturn]
    IN  /\ r.pc = "check"
        /\ \A u \in Threads \ {t} : thread[u].pc \notin {"page", "store", "stamp"}
        /\ IF CacheFresh(now, LAST_SCRAPED, heap[LOWONGAN_CACHE])
           THEN Set(t, [obs EXCEPT !.pc = "hit"])
           ELSE Set(t, [obs EXCEPT !.pc = "page", !.all_data = <<>>,
                                   !.current_page = 1, !.total_pages = 1])
        /\ UNCHANGED << gemini_client, LOWONGAN_CACHE, LAST_SCRAPED, heap, nextId, now,
                        ticks, files, started, lastReturn, fetched, oddsvars >>

ProsesCheck(t) ==
    LET r == thread[t]
        obs == [r EXCEPT !.obsYoung = (now - LAST_SCRAPED < TTL),
                         !.obsStamped = (LAST_SCRAPED # 0),
                         !.obsCache = LOWONGAN_CACHE,
                         !.obsEmpty = (heap[LOWONGAN_CACHE] = <<>>),
                         !.prevReturn = lastReturn]
    IN  /\ r.pc = "check"
        /\ IF CacheFresh(now, LAST_SCRAPED, heap[LOWONGAN_CACHE])
           THEN Set(t, [obs EXCEPT !.pc = "hit"])
           ELSE Set(t, [obs EXCEPT !.pc = "page", !.all_data = <<>>,
                                   !.current_page = 1, !.total_pages = 1])
        /\ UNCHANGED << gemini_client, LOWONGAN_CACHE, LAST_SCRAPED, heap, nextId, now,
                        ticks, files, started, lastReturn, fetched, oddsvars >>

\* line 101: return LOWONGAN_CACHE
ProsesReturnCached(t) ==
    LET r == thread[t]
    IN  /\ r.pc = "hit"
        /\ Set(t, [r EXCEPT !.pc = "after", !.lowongan_data = LOWONGAN_CACHE,
                            !.outcome = "hit"])
        /\ lastReturn' = LOWONGAN_CACHE
        /\ UNCHANGED << gemini_client, LOWONGAN_CACHE, LAST_SCRAPED, heap, nextId, now,
                        ticks, files, started, fetched, oddsvars >>

\* one iteration of the page loop whose request succeeds with the listings envelope
PageOk(t) ==
    LET r == thread[t]
    IN  /\ r.pc = "page" /\ LoopCond(r)
        /\ \E body \in PageBodies, last_page \in LastPages :
              Set(t, [r EXCEPT !.all_data = r.all_data \o ExtractPage(body),
                               !.total_pages = IF r.current_page = 1
                                               THEN Min(last_page, MAX_PAGES_LIMIT)
                                               ELSE r.total_pages,
                               !.current_page = r.current_page + 1,
                               !.requests = r.requests + 1])
        /\ UNCHANGED << gemini_client, LOWONGAN_CACHE, LAST_SCRAPED, heap, nextId, now,
                        ticks, files, started, lastReturn, fetched, oddsvars >>

\* the request raises requests.exceptions.RequestException (connection error,
\* timeout, raise_for_status, a body that is not JSON under requests >= 2.27):
\* print, sleep, break.  The sleep only lets time pass, which is Tick.
PageFail(t) ==
    LET r == thread[t]
    IN  /\ r.pc = "page" /\ LoopCond(r)
        /\ Set(t, [r EXCEPT !.pc = "store", !.requests = r.requests + 1,
                            !.pageFailure = "request_exception",
                            !.failedWith = r.all_data])
        /\ UNCHANGED << gemini_client, LOWONGAN_CACHE, LAST_SCRAPED, heap, nextId, now,
                        ticks, files, started, lastReturn, fetched, oddsvars >>

\* what a handler does with an exception that leaves proses_data_api
Raised(r) ==
    IF r.handler = "recommend"
    THEN [r EXCEPT !.pc = "finally", !.outcome = "raised",
                   !.pending = [status |-> 500, body |-> <<"error">>]]
    ELSE [r EXCEPT !.pc = "done", !.outcome = "raised",
                   !.resp = [status |-> 500, body |-> <<"error">>]]

\* the body is JSON but not the envelope (data.get on a list or null, an item
\* that is no object, perusahaan: null, a null quota, ...), or it is not JSON and
\* response.json() raises a plain ValueError (requests < 2.27): the exception is
\* no RequestException and leaves proses_data_api
PageRaise(t) ==
    LET r == thread[t]
    IN  /\ r.pc = "page" /\ LoopCond(r)
        /\ Set(t, Raised([r EXCEPT !.requests = r.requests + 1,
                                   !.pageFailure = "malformed_body",
                                   !.failedWith = r.all_data]))
        /\ UNCHANGED << gemini_client, LOWONGAN_CACHE, LAST_SCRAPED, heap, nextId, now,
                        ticks, files, started, lastReturn, fetched, oddsvars >>

\* list objects that a thread other than t still names; a list nothing names
\* is collected
Held(t) == { thread[u].lowongan_data : u \in Threads \ {t} } \cap DOMAIN heap

\* line 177: LOWONGAN_CACHE = all_data
StoreCache(t) ==
    LET r == thread[t]
    IN  /\ r.pc = "store" \/ (r.pc = "page" /\ ~LoopCond(r))
        /\ heap' = [i \in Held(t) \cup {nextId} |->
                        IF i = nextId THEN r.all_data ELSE heap[i]]
        /\ LOWONGAN_CACHE' = nextId
        /\ nextId' = nextId + 1
        /\ fetched' = r.all_data
        /\ Set(t, [r EXCEPT !.pc = "stamp", !.lowongan_data = nextId])
        /\ UNCHANGED << gemini_client, LAST_SCRAPED, now, ticks, files, started,
                        lastReturn, oddsvars >>

\* lines 178-179: LAST_SCRAPED = time.time(); return all_data
StoreStamp(t) ==
    LET r == thread[t]
    IN  /\ r.pc = "stamp"
        /\ LAST_SCRAPED' = now
        /\ lastReturn' = r.lowongan_data
        /\ Set(t, [r EXCEPT !.pc = "after", !.outcome = "stored", !.all_data = <<>>,
                            !.current_page = 0, !.total_pages = 0])
        /\ UNCHANGED << gemini_client, LOWONGAN_CACHE, heap, nextId, now, ticks, files,
                        started, fetched, oddsvars >>

\* ---------------------------------------------- classify_lowongan_gemini
\* what generate_content can answer: an error or unparsable text, or a JSON
\* array of {id, kategori} objects (kategori possibly null)
AiIds == {"a", "b"}
RawCats == {"it-related", "NON-IT", "Other", Null}
ClassifyReplies ==
    { [ok |-> FALSE, items |-> <<>>] } \cup
    { [ok |-> TRUE, items |-> s] : s \in SeqsUpTo([id : AiIds, kategori : RawCats], MaxLabels) }

\* str.upper()
Upper(s) ==
    CASE s = "it-related" -> "IT-RELATED"
      [] s = "Other" -> "OTHER"
      [] OTHER -> s

Max(S) == CHOOSE x \in S : \A y \in S : y <= x

\* lines 86-90: json.loads, the dict comprehension (a later entry of an id
\* replaces an earlier one; None.upper() raises), and the except branch
ClassifyResult(reply) ==
    IF ~reply.ok \/ (\E k \in DOMAIN reply.items : reply.items[k].kategori = Null)
    THEN EmptyMap
    ELSE [ i \in { reply.items[k].id : k \in DOMAIN reply.items } |->
             Upper(reply.items[Max({k \in DOMAIN reply.items : reply.items[k].id = i})].kategori) ]

\* dict.get(key, default)
DictGet(m, k, default) == IF k \in DOMAIN m THEN m[k] ELSE default

\* line 202, for every item of the list
MergeKategori(list, map) ==
    [ k \in 1..Len(list) |-> [list[k] EXCEPT !.kategori = DictGet(map, list[k].id, "NON-IT")] ]

\* lines 205 and 242: sort_values(by=['peluang','kuota'], ascending=[False, False]),
\* a stable sort
Before(x, y) == x.peluang > y.peluang \/ (x.peluang = y.peluang /\ x.kuota > y.kuota)

MinOf(S) == CHOOSE x \in S : \A y \in S : x <= y

InsertSorted(x, s) ==
    LET worse == { k \in 1..Len(s) : Before(x, s[k]) }
        pos == IF worse = {} THEN Len(s) + 1 ELSE MinOf(worse)
    IN  SubSeq(s, 1, pos - 1) \o <<x>> \o SubSeq(s, pos, Len(s))

RECURSIVE SortRecords(_)
SortRecords(s) ==
    IF s = <<>> THEN <<>>
    ELSE InsertSorted(s[Len(s)], SortRecords(SubSeq(s, 1, Len(s) - 1)))

\* ------------------------------------------------------------ handlers
Begin(t, r) ==
    /\ thread[t].pc = "idle"
    /\ started < MaxRequests
    /\ started' = started + 1
    /\ Set(t, r)

\* GET /
index(t) ==
    /\ Begin(t, [IdleThread EXCEPT !.pc = "done", !.handler = "index",
                                   !.resp = [status |-> 200, body |-> <<"index.html">>]])
    /\ UNCHANGED << gemini_client, LOWONGAN_CACHE, LAST_SCRAPED, heap, nextId, now,
                    ticks, files, lastReturn, fetched, oddsvars >>

\* GET /api/data, up to the call of proses_data_api
get_lowongan_data(t) ==
    /\ Begin(t, [IdleThread EXCEPT !.pc = "check", !.handler = "data"])
    /\ UNCHANGED << gemini_client, LOWONGAN_CACHE, LAST_SCRAPED, heap, nextId, now,
                    ticks, files, lastReturn, fetched, oddsvars >>

\* lines 195-199: the empty answer, or the classifier call (lines 60-90: no
\* call without a client; the prompt lists the first 500 records, the answer
\* is whatever the model sends back)
DataClassify(t) ==
    LET r == thread[t]
    IN  /\ r.pc = "after" /\ r.handler = "data"
        /\ IF heap[r.lowongan_data] = <<>>
           THEN Set(t, [r EXCEPT !.pc = "done", !.resp = [status |-> 200, body |-> <<>>]])
           ELSE IF ~gemini_client
           THEN Set(t, [r EXCEPT !.pc = "merge", !.classification_map = EmptyMap])
           ELSE \E reply \in ClassifyReplies :
                   Set(t, [r EXCEPT !.pc = "merge", !.aiCalls = r.aiCalls + 1,
                                    !.classification_map = ClassifyResult(reply)])
        /\ UNCHANGED << gemini_client, LOWONGAN_CACHE, LAST_SCRAPED, heap, nextId, now,
                        ticks, files, started, lastReturn, fetched, oddsvars >>

\* lines 201-207: the items of the list object are updated in place, then the
\* sorted copy is the response
DataMerge(t) ==
    LET r == thread[t]
        merged == MergeKategori(heap[r.lowongan_data], r.classification_map)
    IN  /\ r.pc = "merge"
        /\ heap' = [heap EXCEPT ![r.lowongan_data] = merged]
        /\ Set(t, [r EXCEPT !.pc = "done", !.classification_map = EmptyMap,
                            !.resp = [status |-> 200, body |-> SortRecords(merged)]])
        /\ UNCHANGED << gemini_client, LOWONGAN_CACHE, LAST_SCRAPED, nextId, now,
                        ticks, files, started, lastReturn, fetched, oddsvars >>

\* the multipart field cv_file of a POST /api/recommend
Uploads ==
    { NoUpload,
      [present |-> TRUE, filename |-> "",          mimetype |-> "application/pdf"],
      [present |-> TRUE, filename |-> "cv.txt",    mimetype |-> "text/plain"],
      [present |-> TRUE, filename |-> "my cv.pdf", mimetype |-> "application/pdf"] }

\* werkzeug.utils.secure_filename on the names above
SecureFilename(name) == IF name = "my cv.pdf" THEN "my_cv.pdf" ELSE name

\* line 220
FileInvalid_nameonly(f) == f.filename = ""

FileInvalid(f) == f.filename = "" \/ f.mimetype # "application/pdf"

\* lines 213-229: the checks, then file.save
recommend_positions(t) ==
    /\ \E f \in Uploads :
        LET r == [IdleThread EXCEPT !.handler = "recommend", !.cv_file = f]
            err(code) == [r EXCEPT !.pc = "done",
                                   !.resp = [status |-> code, body |-> <<"error">>]]
        IN  IF ~gemini_client
            THEN Begin(t, err(500)) /\ files' = files
            ELSE IF ~f.present
            THEN Begin(t, err(400)) /\ files' = files
            ELSE IF FileInvalid(f)
            THEN Begin(t, err(400)) /\ files' = files
            ELSE /\ Begin(t, [r EXCEPT !.pc = "check", !.saved = TRUE,
                                       !.filepath = SecureFilename(f.filename)])
                 /\ files' = files \cup {SecureFilename(f.filename)}
    /\ UNCHANGED << gemini_client, LOWONGAN_CACHE, LAST_SCRAPED, heap, nextId, now,
                    ticks, lastReturn, fetched, oddsvars >>

Fail500(r) == [r EXCEPT !.pc = "finally",
                        !.pending = [status |-> 500, body |-> <<"error">>]]

\* lines 236-243: the empty-data answer, or the DataFrame copy of the list
RecFrame(t) ==
    LET r == thread[t]
    IN  /\ r.pc = "after" /\ r.handler = "recommend"
        /\ IF heap[r.lowongan_data] = <<>>
           THEN Set(t, Fail500(r))
           ELSE Set(t, [r EXCEPT !.pc = "upload", !.df_all = heap[r.lowongan_data]])
        /\ UNCHANGED << gemini_client, LOWONGAN_CACHE, LAST_SCRAPED, heap, nextId, now,
                        ticks, files, started, lastReturn, fetched, oddsvars >>

\* line 245: gemini_client.files.upload
RecUpload(t) ==
    LET r == thread[t]
    IN  /\ r.pc = "upload"
        /\ \E ok \in BOOLEAN :
              IF ok
              THEN Set(t, [r EXCEPT !.pc = "generate", !.uploaded_file = TRUE,
                                    !.aiCalls = r.aiCalls + 1])
              ELSE Set(t, Fail500([r EXCEPT !.aiCalls = r.aiCalls + 1]))
        /\ UNCHANGED << gemini_client, LOWONGAN_CACHE, LAST_SCRAPED, heap, nextId, now,
                        ticks, files, started, lastReturn, fetched, oddsvars >>

\* what generate_content can answer to the recommend prompt: an error or
\* unparsable text, or a JSON array of objects with the keys id, posisi, alasan
\* (an object may lack a key: here posisi)
RecIds == {"a", "b", "x"}
RecEntries ==
    [id : RecIds, posisi : {"Dev"}, alasan : {"fit"}] \cup
    { [id |-> "a", posisi |-> Missing, alasan |-> "fit"] }
RecReplies ==
    { [ok |-> FALSE, items |-> <<>>] } \cup
    { [ok |-> TRUE, items |-> s] : s \in SeqsUpTo(RecEntries, MaxRecs) }

\* df_all[df_all['id'] == rec['id']].iloc[0]: the first row with that id
Matches(df, id) == { k \in 1..Len(df) : df[k].id = id }

Lookup(df, id) == df[MinOf(Matches(df, id))]

\* the try block of lines 266-275 succeeds for this entry
Emits(df, rec) ==
    /\ Matches(df, rec.id) # {}
    /\ rec.posisi # Missing
    /\ rec.alasan # Missing

Emit_firstrow(df, rec) ==
    [ posisi |-> rec.posisi,
      perusahaan |-> df[1].perusahaan,
      peluang |-> df[1].peluang,
      alasan |-> rec.alasan ]

Emit(df, rec) ==
    [ posisi |-> rec.posisi,
      perusahaan |-> Lookup(df, rec.id).perusahaan,
      peluang |-> Lookup(df, rec.id).peluang,
      alasan |-> rec.alasan ]

\* lines 264-275
RECURSIVE BuildResult(_, _)
BuildResult(df, recs) ==
    IF recs = <<>> THEN <<>>
    ELSE (IF Emits(df, Head(recs)) THEN <<Emit(df, Head(recs))>> ELSE <<>>)
         \o BuildResult(df, Tail(recs))

\* lines 256-277: generate_content, json.loads, the loop, return jsonify(result)
RecGenerate(t) ==
    LET r == thread[t]
    IN  /\ r.pc = "generate"
        /\ \E reply \in RecReplies :
              IF reply.ok
              THEN Set(t, [r EXCEPT !.pc = "finally", !.aiCalls = r.aiCalls + 1,
                                    !.recommendations = reply.items,
                                    !.pending = [status |-> 200,
                                                 body |-> BuildResult(r.df_all, reply.items)]])
              ELSE Set(t, Fail500([r EXCEPT !.aiCalls = r.aiCalls + 1]))
        /\ UNCHANGED << gemini_client, LOWONGAN_CACHE, LAST_SCRAPED, heap, nextId, now,
                        ticks, files, started, lastReturn, fetched, oddsvars >>

\* the locals the finally block does not read are dropped when it starts
Tail277(r) == [r EXCEPT !.df_all = <<>>, !.recommendations = <<>>]

\* lines 283-284: the remote delete; when it raises, the exception leaves the
\* finally block and the handler, and line 285 is not reached
RecDeleteRemote(t) ==
    LET r == thread[t]
    IN  /\ r.pc = "finally" /\ r.uploaded_file
        /\ \E ok \in BOOLEAN :
              IF ok
              THEN Set(t, [Tail277(r) EXCEPT !.pc = "remove", !.aiCalls = r.aiCalls + 1])
              ELSE Set(t, [Tail277(r) EXCEPT !.pc = "done", !.aiCalls = r.aiCalls + 1,
                                    !.deleteFailed = TRUE,
                                    !.resp = [status |-> 500, body |-> <<"error">>]])
        /\ UNCHANGED << gemini_client, LOWONGAN_CACHE, LAST_SCRAPED, heap, nextId, now,
                        ticks, files, started, lastReturn, fetched, oddsvars >>

\* lines 285-286, then the pending return value is the response
RecRemoveLocal(t) ==
    LET r == thread[t]
    IN  /\ r.pc = "remove" \/ (r.pc = "finally" /\ ~r.uploaded_file)
        /\ files' = files \ {r.filepath}
        /\ Set(t, [Tail277(r) EXCEPT !.pc = "done", !.resp = r.pending])
        /\ UNCHANGED << gemini_client, LOWONGAN_CACHE, LAST_SCRAPED, heap, nextId, now,
                        ticks, started, lastReturn, fetched, oddsvars >>

\* the response is sent and the thread takes the next request
Return(t) ==
    /\ thread[t].pc = "done"
    /\ Set(t, IdleThread)
    /\ heap' = [i \in Held(t) \cup {LOWONGAN_CACHE} |-> heap[i]]
    /\ UNCHANGED << gemini_client, LOWONGAN_CACHE, LAST_SCRAPED, nextId, now,
                    ticks, files, started, lastReturn, fetched, oddsvars >>

Step(t) ==
    \/ index(t)
    \/ get_lowongan_data(t)
    \/ recommend_positions(t)
    \/ ProsesCheck(t)
    \/ ProsesReturnCached(t)
    \/ PageOk(t)
    \/ PageFail(t)
    \/ PageRaise(t)
    \/ StoreCache(t)
    \/ StoreStamp(t)
    \/ DataClassify(t)
    \/ DataMerge(t)
    \/ RecFrame(t)
    \/ RecUpload(t)
    \/ RecGenerate(t)
    \/ RecDeleteRemote(t)
    \/ RecRemoveLocal(t)
    \/ Return(t)

\* one request at a time (the processing model of a single worker): the first
\* thread serves every request, the others stay idle
Worker == { t \in Threads : \A u \in Threads : t <= u }

Next == Tick \/ \E t \in Worker : Step(t)

Spec == Init /\ [][Next]_vars

\* request threads of a threaded server: the threads interleave step by step
\* while they are inside proses_data_api, where the globals are read and written;
\* what a handler does after proses_data_api returned runs without preemption
CachePcs == {"check", "hit", "page", "store", "stamp"}

Runnable(t) == \A u \in Threads \ {t} : thread[u].pc \in CachePcs \cup {"idle"}

NextThreaded ==
    \/ Tick
    \/ \E t \in Threads :
          \/ Runnable(t) /\ index(t)
          \/ Runnable(t) /\ get_lowongan_data(t)
          \/ Runnable(t) /\ recommend_positions(t)
          \/ Runnable(t) /\ ProsesCheck(t)
          \/ Runnable(t) /\ ProsesReturnCached(t)
          \/ Runnable(t) /\ PageOk(t)
          \/ Runnable(t) /\ PageFail(t)
          \/ Runnable(t) /\ PageRaise(t)
          \/ Runnable(t) /\ StoreCache(t)
          \/ Runnable(t) /\ StoreStamp(t)
          \/ Runnable(t) /\ DataClassify(t)
          \/ Runnable(t) /\ DataMerge(t)
          \/ Runnable(t) /\ RecFrame(t)
          \/ Runnable(t) /\ RecUpload(t)
          \/ Runnable(t) /\ RecGenerate(t)
          \/ Runnable(t) /\ RecDeleteRemote(t)
          \/ Runnable(t) /\ RecRemoveLocal(t)
          \/ Runnable(t) /\ Return(t)

SpecThreaded == Init /\ [][NextThreaded]_vars

\* ------------------------------------------------- hitung_peluang alone
InitOdds ==
    /\ InitSys
    /\ kuota_in \in 0..MaxVal
    /\ pelamar_in \in 0..MaxVal
    /\ odds_out = <<"none">>

OddsCall ==
    /\ odds_out = <<"none">>
    /\ odds_out' = <<"value", hitung_peluang(kuota_in, pelamar_in)>>
    /\ UNCHANGED << sysvars, kuota_in, pelamar_in >>

OddsArgs ==
    /\ odds_out # <<"none">>
    /\ kuota_in' \in 0..MaxVal
    /\ pelamar_in' \in 0..MaxVal
    /\ odds_out' = <<"none">>
    /\ UNCHANGED sysvars

NextOdds == OddsCall \/ OddsArgs

SpecOdds == InitOdds /\ [][NextOdds]_vars

\* ================================================================ claims
Checked(r) == r.pc \in {"hit", "page", "store", "stamp"} \/ r.outcome # "none"
Ended(r) == r.outcome # "none"
Fetching(r) == r.pc \in {"page", "store", "stamp"} \/ r.outcome \in {"stored", "raised"}
AboutToRequest(r) == r.pc = "page" /\ r.requests = 0 /\ LoopCond(r)

\* C1: of sequential calls of proses_data_api, a call made when
\* now - LAST_SCRAPED < 3600 and the cached list is non-empty sends no listings
\* request and returns the very list the previous call returned, and a call made
\* when 3600 or more have elapsed makes exactly one fetch attempt, stores its
\* result and returns it.
Claim_C1 ==
    \A t \in Threads :
        LET r == thread[t]
        IN  Ended(r) =>
              /\ (r.obsYoung /\ ~r.obsEmpty) =>
                    /\ r.requests = 0
                    /\ r.lowongan_data = r.prevReturn
              /\ ~r.obsYoung =>
                    /\ r.requests = 1
                    /\ r.outcome = "stored"
                    /\ (r.pc = "after" => LOWONGAN_CACHE = r.lowongan_data /\ LAST_SCRAPED # 0)

\* The statement of C1 restricted to the calls of proses_data_api that end by
\* returning a list.
Returned_C1 ==
    \A t \in Threads :
        LET r == thread[t]
        IN  (Ended(r) /\ r.outcome # "raised") =>
              /\ (r.obsYoung /\ ~r.obsEmpty) =>
                    /\ r.requests = 0
                    /\ r.lowongan_data = r.prevReturn
              /\ ~r.obsYoung =>
                    /\ r.requests = 1
                    /\ r.outcome = "stored"
                    /\ (r.pc = "after" => LOWONGAN_CACHE = r.lowongan_data /\ LAST_SCRAPED # 0)

\* C2 as stated: after a fetch that stored an empty list, a call of
\* proses_data_api within 3600 of that fetch sends no listings request.
Claim_C2 ==
    \A t \in Threads :
        LET r == thread[t]
        IN  (Checked(r) /\ r.obsStamped /\ r.obsYoung /\ r.obsEmpty) =>
              r.requests = 0 /\ ~Fetching(r)

\* C2 as amended: a fetch that yields an empty list stores it and a timestamp
\* like any other, but a call of proses_data_api that finds the cached list
\* empty refetches even within 3600 of that fetch: it sends a listings request.
Thm_C2 ==
    \A t \in Threads :
        LET r == thread[t]
        IN  /\ (Checked(r) /\ r.obsStamped /\ r.obsYoung /\ r.obsEmpty) =>
                  /\ Fetching(r)
                  /\ AboutToRequest(r) \/ r.requests >= 1
            /\ (r.pc = "after" /\ r.outcome = "stored") =>
                  /\ LOWONGAN_CACHE = r.lowongan_data
                  /\ heap[LOWONGAN_CACHE] = fetched
                  /\ LAST_SCRAPED # 0 /\ LAST_SCRAPED <= now

Witness_C2 ==
    \E t \in Threads :
        LET r == thread[t]
        IN  r.obsStamped /\ r.obsYoung /\ r.obsEmpty /\ r.requests = 1

\* C3: once recommend_positions has saved the upload, the temp file does not
\* exist when the handler returns, on every exit path.
Claim_C3 ==
    \A t \in Threads :
        LET r == thread[t]
        IN  (r.pc = "done" /\ r.saved) => r.filepath \notin files

\* the cv_file field is missing, has an empty filename, or is no PDF
BadUpload(f) == ~f.present \/ f.filename = "" \/ f.mimetype # "application/pdf"

NoSideEffect(r) == r.requests = 0 /\ r.aiCalls = 0 /\ ~r.saved /\ r.filepath = Missing

\* C4 as stated: a recommend request with a bad cv_file is answered 400 in
\* every configuration, with no external call and no temp file.
Claim_C4 ==
    \A t \in Threads :
        LET r == thread[t]
        IN  (r.pc = "done" /\ r.handler = "recommend" /\ BadUpload(r.cv_file)) =>
              r.resp.status = 400 /\ NoSideEffect(r)

\* C4 as amended: a recommend request with a bad cv_file is answered 400 when
\* the Gemini client is configured and 500 when it is not (the client is
\* checked first); in both cases no external call is made and no temp file is
\* written.
Thm_C4 ==
    \A t \in Threads :
        LET r == thread[t]
        IN  (r.pc = "done" /\ r.handler = "recommend" /\ BadUpload(r.cv_file)) =>
              /\ r.resp.status = (IF gemini_client THEN 400 ELSE 500)
              /\ NoSideEffect(r)

Witness_C4 ==
    \E t \in Threads :
        LET r == thread[t]
        IN  /\ r.pc = "done" /\ r.handler = "recommend" /\ gemini_client
            /\ r.cv_file.present /\ r.cv_file.mimetype = "text/plain"
            /\ r.resp.status = 400

\* C5: when a listings page request fails (network error, bad status, malformed
\* body), the fetch ends at that page without another request, and /api/data
\* answers 200 with the records accumulated before it.
Claim_C5 ==
    \A t \in Threads :
        LET r == thread[t]
        IN  (r.pc = "done" /\ r.handler = "data" /\ r.pageFailure # "none") =>
              /\ r.requests = 1
              /\ r.resp.status = 200
              /\ Len(r.resp.body) = Len(r.failedWith)

\* C6: for quota >= 0 and applicants >= 0, hitung_peluang is 100 when
\* applicants = 0 and quota > 0, 0 when both are 0, and min(100, 100 * quota /
\* applicants) otherwise, hence within [0, 100].
Thm_C6 ==
    odds_out[1] = "value" =>
        LET v == odds_out[2]
            q == kuota_in
            a == pelamar_in
        IN  /\ v[2] > 0 /\ 0 <= v[1] /\ v[1] <= 100 * v[2]
            /\ (a = 0 /\ q > 0) => v = <<100, 1>>
            /\ (a = 0 /\ q = 0) => v = <<0, 1>>
            /\ (a > 0 /\ q >= a) => v = <<100, 1>>
            /\ (a > 0 /\ q < a) => v[1] * a = 100 * q * v[2]

Witness_C6 == kuota_in = 5 /\ pelamar_in = 10 /\ odds_out = <<"value", <<50, 1>>>>

\* C7: every record of a /api/data response has the category "IT-RELATED" or
\* "NON-IT", whatever the model answers.
Claim_C7 ==
    \A t \in Threads :
        LET r == thread[t]
        IN  (r.pc = "done" /\ r.handler = "data" /\ r.resp.status = 200) =>
              \A k \in DOMAIN r.resp.body :
                  r.resp.body[k].kategori \in {"IT-RELATED", "NON-IT"}

\* the entries of the model's list whose id is the id of a record of the dataset
InDataset(df, rec) == \E k \in DOMAIN df : df[k].id = rec.id
ByIdOnly(df, recs) == LET Keep(rec) == InDataset(df, rec) IN SelectSeq(recs, Keep)
WellFormed(df, recs) ==
    LET Keep(rec) == InDataset(df, rec) /\ rec.posisi # Missing /\ rec.alasan # Missing
    IN  SelectSeq(recs, Keep)
RowOf(df, rec) == df[CHOOSE k \in DOMAIN df : df[k].id = rec.id /\ \A j \in 1..(k - 1) : df[j].id # rec.id]

Carries(df, recs, body) ==
    /\ Len(body) = Len(recs)
    /\ \A k \in DOMAIN recs :
          /\ body[k].posisi = recs[k].posisi
          /\ body[k].alasan = recs[k].alasan
          /\ body[k].perusahaan = RowOf(df, recs[k]).perusahaan
          /\ body[k].peluang = RowOf(df, recs[k]).peluang

Built(r) == r.handler = "recommend" /\ r.pc = "finally" /\ r.pending.status = 200

\* C8 as stated: the list recommend_positions returns holds exactly the entries
\* of the model's list whose id is in the dataset, in the model's order, each
\* with the company and odds of the matched record.
Claim_C8 ==
    \A t \in Threads :
        LET r == thread[t]
        IN  Built(r) => Carries(r.df_all, ByIdOnly(r.df_all, r.recommendations), r.pending.body)

\* C8 as amended: the list recommend_positions returns at line 277 holds exactly
\* the entries of the model's list whose id is in the dataset and that have the
\* keys posisi and alasan, in the model's order, each with the company and odds
\* of the matched record; any other entry is dropped on its own.  That list is
\* the body of every 200 answer of the handler.
Thm_C8 ==
    \A t \in Threads :
        LET r == thread[t]
        IN  /\ Built(r) =>
                Carries(r.df_all, WellFormed(r.df_all, r.recommendations), r.pending.body)
            /\ (r.handler = "recommend" /\ r.pc = "done" /\ r.resp.status = 200) =>
                r.resp = r.pending

Witness_C8 ==
    \E t \in Threads :
        LET r == thread[t]
        IN  /\ Built(r)
            /\ Len(r.df_all) = 2
            /\ Len(r.recommendations) = 2
            /\ r.recommendations[1].id = "x"
            /\ r.recommendations[2].id = r.df_all[2].id
            /\ Len(r.pending.body) = 1

\* C9: the cached list is changed only by the fetcher replacing it: its content
\* is always the content stored by the last fetch.
Claim_C9 == heap[LOWONGAN_CACHE] = fetched

\* the cache test as the thread observed it
ObservedMiss(r) == ~(r.obsYoung /\ ~r.obsEmpty)

\* C10: no lock guards the cache: a thread at the cache test is never held
\* back by another thread that is fetching, and every thread that observed a
\* miss makes its own fetch; so two threads can both observe the same miss
\* before either stores, and each sends its own listings request.
Thm_C10 ==
    \A t \in Threads :
        LET r == thread[t]
        IN  /\ r.pc = "check" => ENABLED ProsesCheck(t)
            /\ Checked(r) => (ObservedMiss(r) <=> Fetching(r))
            /\ (Checked(r) /\ ObservedMiss(r)) => (AboutToRequest(r) \/ r.requests >= 1)

Witness_C10 ==
    \E t, u \in Threads :
        /\ t # u
        /\ thread[t].pc \in {"page", "store"} /\ thread[u].pc \in {"page", "store"}
        /\ thread[t].requests = 1 /\ thread[u].requests = 1
        /\ thread[t].obsCache = thread[u].obsCache
        /\ LOWONGAN_CACHE = thread[t].obsCache

====
